---- MODULE Spec2Model ----
(***************************************************************************)
(* Model of the IoT metrics agent (src/Agent): the run loop of main.py,    *)
(* the delivery protocol post_metrics with its retry and rate_limiter      *)
(* decorators, the device-identity resolver and the host probes of         *)
(* metrics.py; and of the collector's device endpoint (src/Server).        *)
(*                                                                         *)
(* The specifications of the module:                                       *)
(*   Spec        the agent process: run loop, collect, deliver against a   *)
(*               collector that may answer any status or fail to answer;   *)
(*   SpecLive    Spec with the process kept running (weak fairness);       *)
(*   SpecRetry   the retry decorator around an arbitrary operation;        *)
(*   SpecRate    the rate_limiter decorator with a wall clock;             *)
(*   SpecId      identity resolution against the host files;               *)
(*   SpecCpu     the CPU usage probe over two reads of /proc/stat;         *)
(*   SpecCollect collect_metrics over hosts whose reads fail;              *)
(*   SpecServer  deliveries against DeviceListCreateView and its tables.   *)
(* A specification leaves the variables of the other components alone.     *)
(***************************************************************************)
EXTENDS Integers, Sequences, FiniteSets, TLC

VARIABLES
    \* ---- main.py
    containerized,  \* CONTAINERIZED flag (main.py:13)
    pc,             \* position of the run loop
    metrics,        \* snapshot returned by the last collect_metrics()
    response,       \* value assigned from post_metrics (main.py:20,23)
    \* ---- decorators.retry.wrapper
    max_retries,    \* decorator argument
    rpc,            \* position inside retry.wrapper
    i,              \* loop variable of `for i in range(max_retries)`
    calls,          \* invocations of func in the current wrapper call
    sleeps,         \* time.sleep(delay) executed in the current wrapper call
    outcomes,       \* outcome of each invocation of func, in order
    result,         \* value returned by the wrapper
    \* ---- metrics.post_metrics
    ppc,            \* position inside rate_limiter.wrapper / post_metrics
    log,            \* HTTP exchanges of the current post_metrics call
    \* ---- decorators.rate_limiter
    cps,            \* calls_per_second as a fraction <<num, den>>
    now,            \* time.time(), in ticks
    last_called,    \* last_called[0]
    lpc,            \* position inside rate_limiter.wrapper
    invocations,    \* calls of the rate-limited wrapper so far
    prevStart,      \* start time of the previous run of the wrapped func
    gap,            \* time between the last two starts of the wrapped func
    lastAtRaise,    \* last_called[0] around the most recent failure of func
    rateOutcome,    \* how the last call of the rate-limited wrapper ended
    \* ---- metrics.get_simulated_id / get_device_id
    envId,          \* os.environ.get("CONTAINER_ID")
    midFile,        \* /etc/machine-id
    sideFile,       \* /tmp/container_id.txt
    storage,        \* whether the side file can be opened for writing
    dflt,           \* default bound by @log_exceptions(default=get_simulated_id())
    device_id,      \* device_id placed in the snapshot by collect_metrics
    idpc,           \* position of the process w.r.t. identity resolution
    lastAct,        \* the last identity step taken
    resolutions,    \* calls of get_device_id made by the running process
    firstId,        \* what the first of them returned
    prevId,         \* what get_device_id returned in the previous process
    envFixed,       \* the host files were left alone since the process started
    \* ---- metrics.collect_metrics and the probes
    cpc,            \* position of the collection cycle
    hostFail,       \* probes whose host read fails in this cycle
    unreadable,     \* interface counters that cannot be read in this cycle
    invoked,        \* probes called in this cycle
    probeResult,    \* what each called probe returned
    snapshot,       \* the dictionary returned by collect_metrics
    \* ---- metrics.get_cpu_usage
    sample1,        \* first read of /proc/stat: <<idle, total>>
    sample2,        \* second read of /proc/stat
    cpu_usage,      \* value returned by get_cpu_usage, in hundredths of a percent
    cpupc,          \* position of the probe
    \* ---- Server/Metrics: the collector's tables
    devices,        \* Device rows
    sysRows,        \* SystemMetrics rows
    netRows         \* NetworkMetrics rows

mainVars  == <<containerized, pc, metrics, response>>
retryVars == <<max_retries, rpc, i, calls, sleeps, outcomes, result>>
postVars  == <<ppc, log>>
rateVars  == <<cps, now, last_called, lpc, invocations, prevStart, gap, lastAtRaise,
               rateOutcome>>
idVars    == <<envId, midFile, sideFile, storage, dflt, device_id, idpc, lastAct,
               resolutions, firstId, prevId, envFixed>>
probeVars == <<cpc, hostFail, unreadable, invoked, probeResult, snapshot,
               sample1, sample2, cpu_usage, cpupc>>
srvVars   == <<devices, sysRows, netRows>>
vars      == <<mainVars, retryVars, postVars, rateVars, idVars, probeVars, srvVars>>

(***************************************************************************)
(* Values                                                                  *)
(***************************************************************************)
\* HTTP status codes a collector may answer with.
Statuses == {200, 201, 400, 404, 500}

\* Snapshots collect_metrics may return (their content is opaque here).
Snapshots == {"snap1", "snap2"}

\* main.py:11
url == "http://localhost:8000/api/devices/"

\* A requests.Response, reduced to the request method and the status code.
Response(method, status) == [method |-> method, status |-> status]
NoResponse == [method |-> "none", status |-> 0]
\* Outcome recorded for an invocation of func that raised.
Raised == [method |-> "raised", status |-> 0]

\* One HTTP exchange: the request and what came back.
Exchange(attempt, method, u, body) ==
    [attempt |-> attempt, method |-> method, url |-> u, body |-> body,
     state |-> "pending", status |-> 0]

\* Replace the last exchange of the log by its answered form.
Answered(l, state, status) ==
    [l EXCEPT ![Len(l)] = [@ EXCEPT !.state = state, !.status = status]]

(***************************************************************************)
(* decorators.retry                                                        *)
(***************************************************************************)
\* `for i in range(max_retries)`: is there an iteration with index idx?
RetryHasIterationAtLeastOnce(idx, n) == idx < n \/ idx = 0
RetryHasIterationOffByOne(idx, n) == idx <= n
RetryHasIteration(idx, n) == idx < n

\* The loop head: either invoke func once more, or fall out of the loop and
\* raise Exception("... failed after max_retries attempts").
RetryIterate ==
    /\ rpc = "loop"
    /\ IF RetryHasIteration(i, max_retries)
       THEN /\ rpc' = "call"
            /\ calls' = calls + 1
       ELSE /\ rpc' = "raised"
            /\ calls' = calls
    /\ UNCHANGED <<max_retries, i, sleeps, outcomes, result>>

\* `return func(*args, **kwargs)`: func returned v, the wrapper returns it.
RetryReturn(v) ==
    /\ rpc = "call"
    /\ rpc' = "returned"
    /\ result' = v
    /\ outcomes' = Append(outcomes, v)
    /\ UNCHANGED <<max_retries, i, calls, sleeps>>

\* `except Exception as e`: func raised, the wrapper logs a warning.
RetryExcept ==
    /\ rpc = "call"
    /\ rpc' = "except"
    /\ outcomes' = Append(outcomes, Raised)
    /\ UNCHANGED <<max_retries, i, calls, sleeps, result>>

\* `time.sleep(delay)` in the handler, then the next iteration.
RetrySleepNotAfterLast ==
    /\ rpc = "except"
    /\ sleeps' = IF i + 1 < max_retries THEN sleeps + 1 ELSE sleeps
    /\ i' = i + 1
    /\ rpc' = "loop"
    /\ UNCHANGED <<max_retries, calls, outcomes, result>>
RetrySleep ==
    /\ rpc = "except"
    /\ sleeps' = sleeps + 1
    /\ i' = i + 1
    /\ rpc' = "loop"
    /\ UNCHANGED <<max_retries, calls, outcomes, result>>

\* A call of the wrapper: fresh loop state.
RetryEnter ==
    /\ rpc' = "loop"
    /\ i' = 0
    /\ calls' = 0
    /\ sleeps' = 0
    /\ outcomes' = <<>>
    /\ result' = NoResponse
    /\ UNCHANGED max_retries

(***************************************************************************)
(* metrics.post_metrics, as decorated                                      *)
(***************************************************************************)
\* rate_limiter.wrapper around post_metrics: after the pacing wait it calls
\* func, whose first statement sends the PATCH.  (The pacing itself is the
\* subject of SpecRate.)
PostMetricsPatch ==
    /\ rpc = "call" /\ ppc = "limiter"
    /\ log' = Append(log, Exchange(calls, "PATCH", url, metrics))
    /\ ppc' = "patch"
    /\ UNCHANGED <<mainVars, retryVars, rateVars, idVars, probeVars, srvVars>>

\* Method and target of the request sent after a 404.
CreateRequestOtherBody(attempt, u, body) ==
    Exchange(attempt, "POST", u, CHOOSE s \in Snapshots : s # body)
CreateRequest(attempt, u, body) == Exchange(attempt, "POST", u, body)

\* Does post_metrics return the PATCH response as it is?  (metrics.py:317)
PatchIsFinalNever404(status) == status # 404 /\ status # 400
PatchIsFinal(status) == status # 404

\* requests.patch returned a response with the given status.
PatchAnswered(status) ==
    /\ rpc = "call" /\ ppc = "patch"
    /\ IF PatchIsFinal(status)
       THEN \* 200, or any other status but 404: return response
            /\ log' = Answered(log, "response", status)
            /\ ppc' = "none"
            /\ RetryReturn(Response("PATCH", status))
       ELSE \* 404: requests.post(url, json=metrics, headers=headers)
            /\ log' = Append(Answered(log, "response", status),
                             CreateRequest(calls, url, metrics))
            /\ ppc' = "post"
            /\ UNCHANGED retryVars
    /\ UNCHANGED <<mainVars, rateVars, idVars, probeVars>>

\* The same, from a collector whose state is not modelled.
PatchResponse(status) == PatchAnswered(status) /\ UNCHANGED srvVars

\* requests.patch raised (connection refused, timeout, ...).
PatchFailed ==
    /\ rpc = "call" /\ ppc = "patch"
    /\ log' = Answered(log, "error", 0)
    /\ ppc' = "none"
    /\ RetryExcept
    /\ UNCHANGED <<mainVars, rateVars, idVars, probeVars>>

PatchError == PatchFailed /\ UNCHANGED srvVars

\* requests.post returned: create_resp is returned whatever its status.
PostAnswered(status) ==
    /\ rpc = "call" /\ ppc = "post"
    /\ log' = Answered(log, "response", status)
    /\ ppc' = "none"
    /\ RetryReturn(Response("POST", status))
    /\ UNCHANGED <<mainVars, rateVars, idVars, probeVars>>

PostResponse(status) == PostAnswered(status) /\ UNCHANGED srvVars

\* requests.post raised.
PostFailed ==
    /\ rpc = "call" /\ ppc = "post"
    /\ log' = Answered(log, "error", 0)
    /\ ppc' = "none"
    /\ RetryExcept
    /\ UNCHANGED <<mainVars, rateVars, idVars, probeVars>>

PostError == PostFailed /\ UNCHANGED srvVars

\* The retry loop of the decorated post_metrics.
DeliverIterate ==
    /\ pc = "delivering"
    /\ RetryIterate
    /\ ppc' = IF rpc' = "call" THEN "limiter" ELSE ppc
    /\ UNCHANGED <<mainVars, log, rateVars, idVars, probeVars, srvVars>>

DeliverSleep ==
    /\ pc = "delivering"
    /\ RetrySleep
    /\ UNCHANGED <<mainVars, postVars, rateVars, idVars, probeVars, srvVars>>

(***************************************************************************)
(* main.py                                                                 *)
(***************************************************************************)
\* metrics = collect_metrics()
MainCollect ==
    /\ pc = "collect"
    /\ \E s \in Snapshots : metrics' = s
    /\ pc' = "deliver"
    /\ UNCHANGED <<containerized, response, retryVars, postVars, rateVars, idVars, probeVars, srvVars>>

\* post_metrics(metrics, url) is called.
MainDeliver ==
    /\ pc = "deliver"
    /\ RetryEnter
    /\ log' = <<>>
    /\ ppc' = "none"
    /\ pc' = "delivering"
    /\ UNCHANGED <<containerized, metrics, response, rateVars, idVars, probeVars, srvVars>>

\* Where the run loop goes after `response = post_metrics(metrics, url)`.
AfterDeliverAlwaysExit(c) == "exit"
AfterDeliver(c) == IF c THEN "collect" ELSE "exit"

\* response = <the returned value>; `while True` goes round, or the script ends.
MainDeliverReturned ==
    /\ pc = "delivering" /\ rpc = "returned"
    /\ response' = result
    /\ pc' = AfterDeliver(containerized)
    /\ UNCHANGED <<containerized, metrics, retryVars, postVars, rateVars, idVars, probeVars, srvVars>>

\* Where the run loop goes when post_metrics raises: nothing catches it.
AfterRaiseCaught(c) == IF c THEN "collect" ELSE "exit"
AfterRaise(c) == "crashed"

\* The terminal exception of retry leaves post_metrics and main.py.
MainDeliverRaised ==
    /\ pc = "delivering" /\ rpc = "raised"
    /\ pc' = AfterRaise(containerized)
    /\ UNCHANGED <<containerized, metrics, response, retryVars, postVars, rateVars, idVars, probeVars, srvVars>>

\* @retry(max_retries=5, delay=10.0) on post_metrics (metrics.py:299)
PostMetricsMaxRetries == 5

\* Values of the variables a specification does not use.
RetryIdle ==
    /\ rpc = "idle" /\ i = 0 /\ calls = 0 /\ sleeps = 0
    /\ outcomes = <<>> /\ result = NoResponse
MainIdle ==
    /\ containerized = FALSE /\ pc = "off" /\ metrics = "none"
    /\ response = NoResponse
PostIdle == ppc = "none" /\ log = <<>>
RateIdle ==
    /\ cps = <<1, 1>> /\ now = 0 /\ last_called = 0 /\ lpc = "off"
    /\ invocations = 0 /\ prevStart = -1 /\ gap = -1 /\ lastAtRaise = <<>>
    /\ rateOutcome = "none"
IdIdle ==
    /\ envId = [kind |-> "none", val |-> <<>>]
    /\ midFile = [kind |-> "absent", val |-> <<>>]
    /\ sideFile = [kind |-> "absent", val |-> <<>>]
    /\ storage = "ok"
    /\ dflt = [kind |-> "none", val |-> <<>>]
    /\ device_id = [kind |-> "none", val |-> <<>>]
    /\ idpc = "off" /\ lastAct = "none"
    /\ resolutions = 0
    /\ firstId = [kind |-> "unset", val |-> <<>>]
    /\ prevId = [kind |-> "unset", val |-> <<>>]
    /\ envFixed = TRUE
ProbeIdle ==
    /\ cpc = "off" /\ hostFail = {} /\ unreadable = {} /\ invoked = {}
    /\ probeResult = <<>> /\ snapshot = <<>>
    /\ sample1 = <<0, 0>> /\ sample2 = <<0, 0>> /\ cpu_usage = 0 /\ cpupc = "off"
ServerIdle ==
    /\ devices = <<>> /\ sysRows = <<>> /\ netRows = <<>>

Init ==
    /\ containerized \in BOOLEAN
    /\ pc = "collect"
    /\ metrics = "none"
    /\ response = NoResponse
    /\ max_retries = PostMetricsMaxRetries
    /\ RetryIdle /\ PostIdle /\ RateIdle /\ IdIdle /\ ProbeIdle /\ ServerIdle

Next ==
    \/ MainCollect
    \/ MainDeliver
    \/ DeliverIterate
    \/ PostMetricsPatch
    \/ \E s \in Statuses : PatchResponse(s)
    \/ PatchError
    \/ \E s \in Statuses : PostResponse(s)
    \/ PostError
    \/ DeliverSleep
    \/ MainDeliverReturned
    \/ MainDeliverRaised

Spec == Init /\ [][Next]_vars

\* The process keeps running: the interpreter takes its next step, every
\* sleep ends, and every HTTP request returns a response or fails.
SpecLive == Init /\ [][Next]_vars /\ WF_vars(Next)

(***************************************************************************)
(* Delivery protocol: properties of Spec                                   *)
(***************************************************************************)
\* The wrapper call of post_metrics has ended, by return or by raise.
DeliveryOver == rpc \in {"returned", "raised"}

\* Every exchange of the current delivery was answered with the status.
AllAnswered(status) ==
    /\ log # <<>>
    /\ \A k \in 1..Len(log) : log[k].state = "response" /\ log[k].status = status

\* Every request of the current delivery failed with a transport error.
AllTransportErrors ==
    /\ log # <<>>
    /\ \A k \in 1..Len(log) : log[k].state = "error"

\* C1: against a collector that always answers 500, one call of deliver
\* makes exactly max_retries = 5 attempts and ends by raising the terminal
\* error, never by returning a response.
C1_AlwaysFailingCollectorExhaustsRetries ==
    (DeliveryOver /\ AllAnswered(500)) =>
        (rpc = "raised" /\ calls = PostMetricsMaxRetries)

\* C2: when the PATCH is answered 404 and the POST 201, the delivery consists
\* of exactly one PATCH followed by exactly one POST, both to the endpoint
\* and with the snapshot passed to deliver, and deliver returns the 201
\* response.  (The log is that of the deliver call in progress or, in
\* one-shot mode, of the one that has just ended the run.)
C2_NotFoundThenCreated ==
    (/\ pc \in {"delivering", "exit"}
     /\ Len(log) >= 2
     /\ log[1].state = "response" /\ log[1].status = 404
     /\ log[2].state = "response" /\ log[2].status = 201) =>
        /\ Len(log) = 2
        /\ log[1].method = "PATCH" /\ log[2].method = "POST"
        /\ log[1].url = url /\ log[2].url = url
        /\ log[1].body = metrics /\ log[2].body = metrics
        /\ rpc = "returned"
        /\ calls = 1
        /\ result = Response("POST", 201)

C2_Witness ==
    /\ pc = "delivering"
    /\ Len(log) = 2
    /\ log[1].method = "PATCH" /\ log[1].status = 404
    /\ log[2].method = "POST" /\ log[2].status = 201
    /\ log[2].state = "response"
    /\ rpc = "returned"

\* C3: every attempt starts with a PATCH; a POST follows only a PATCH of the
\* same attempt that was answered 404; a PATCH answered 200 ends the delivery
\* with that response: no POST, no further attempt.
C3_PatchFirstPostOnlyAfter404 ==
    /\ \A a \in 1..calls :
          \/ (a = calls /\ rpc = "call" /\ ppc = "limiter")
          \/ \E k \in 1..Len(log) : log[k].attempt = a
    /\ \A k \in 1..Len(log) :
          /\ (k = 1 \/ log[k-1].attempt # log[k].attempt) => log[k].method = "PATCH"
          /\ log[k].method = "POST" =>
                /\ k > 1
                /\ log[k-1].method = "PATCH"
                /\ log[k-1].attempt = log[k].attempt
                /\ log[k-1].state = "response" /\ log[k-1].status = 404
          /\ (log[k].method = "PATCH" /\ log[k].state = "response"
                /\ log[k].status = 200) =>
                /\ k = Len(log)
                /\ rpc = "returned"
                /\ result = Response("PATCH", 200)
                /\ calls = log[k].attempt

\* A delivery with a failed attempt containing a POST, ended by a PATCH
\* answered 200.
C3_Witness ==
    /\ Len(log) >= 3
    /\ \E k \in 1..Len(log) : log[k].method = "POST"
    /\ log[Len(log)].method = "PATCH"
    /\ log[Len(log)].state = "response" /\ log[Len(log)].status = 200
    /\ rpc = "returned"

\* C4: a creation answered with a status other than 201 is retried by the
\* retry wrapper while attempts remain: deliver does not return the failed
\* creation response before the attempt budget is spent.
C4_FailedCreationIsRetried ==
    (/\ rpc = "returned"
     /\ result.method = "POST"
     /\ result.status # 201) => calls = PostMetricsMaxRetries

MaxRetriesBound == 5
\* Number of distinct values the wrapped operation may return.
NumOpResults == 3

\* Values the wrapped operation may return.
OpResults == {Response("op", n) : n \in 1..NumOpResults}

\* The caller invokes the decorated operation.
OpCall ==
    /\ rpc \in {"idle", "returned", "raised"}
    /\ RetryEnter
    /\ UNCHANGED <<mainVars, postVars, rateVars, idVars, probeVars, srvVars>>

OpIterate ==
    /\ RetryIterate
    /\ UNCHANGED <<mainVars, postVars, rateVars, idVars, probeVars, srvVars>>

\* func returns v.
OpReturns(v) ==
    /\ RetryReturn(v)
    /\ UNCHANGED <<mainVars, postVars, rateVars, idVars, probeVars, srvVars>>

\* func raises.
OpRaises ==
    /\ RetryExcept
    /\ UNCHANGED <<mainVars, postVars, rateVars, idVars, probeVars, srvVars>>

OpSleep ==
    /\ RetrySleep
    /\ UNCHANGED <<mainVars, postVars, rateVars, idVars, probeVars, srvVars>>

InitRetry ==
    /\ max_retries \in 0..MaxRetriesBound
    /\ RetryIdle /\ MainIdle /\ PostIdle /\ RateIdle /\ IdIdle /\ ProbeIdle /\ ServerIdle

NextRetry ==
    \/ OpCall
    \/ OpIterate
    \/ \E v \in OpResults : OpReturns(v)
    \/ OpRaises
    \/ OpSleep

SpecRetry == InitRetry /\ [][NextRetry]_vars

\* Index of the first invocation that returned, 0 if none did.
FirstSuccess(os) ==
    IF \E k \in 1..Len(os) : os[k] # Raised
    THEN CHOOSE k \in 1..Len(os) :
            os[k] # Raised /\ \A j \in 1..(k-1) : os[j] = Raised
    ELSE 0

\* C6: with max_retries >= 1, when the wrapper has ended, op was invoked k
\* times, k being the index of its first success, or max_retries if there was
\* none; the wrapper returned the result of that first success; and it raised
\* exactly when all max_retries invocations failed.
C6_RetryStopsAtFirstSuccess ==
    (max_retries >= 1 /\ rpc \in {"returned", "raised"}) =>
        /\ calls = Len(outcomes)
        /\ IF FirstSuccess(outcomes) # 0
           THEN /\ calls = FirstSuccess(outcomes)
                /\ rpc = "returned"
                /\ result = outcomes[calls]
           ELSE /\ calls = max_retries
                /\ rpc = "raised"
        /\ (rpc = "raised") <=>
              (Len(outcomes) = max_retries /\ \A k \in 1..Len(outcomes) : outcomes[k] = Raised)

\* A success on the third invocation after two failures.
C6_Witness ==
    /\ max_retries >= 3
    /\ rpc = "returned"
    /\ calls = 3
    /\ outcomes[1] = Raised /\ outcomes[2] = Raised
    /\ result = outcomes[3]


(***************************************************************************)
(* SpecRate: rate_limiter(calls_per_second) around an arbitrary operation, *)
(* called by a single caller.  Time is counted in ticks.                   *)
(***************************************************************************)
\* Ticks in one second.
TicksPerSecond == 2
\* time.time() when the process starts: the epoch is far in the past.
StartTime == 4
\* The caller stops invoking once the clock has reached MaxTime.
MaxTime == 9
\* Longest run of the wrapped operation, in ticks.
MaxDuration == 1
\* Invocations the caller makes.
MaxInvocations == 4

\* calls_per_second values tried, as fractions num/den: 1, 1/2 and 2.
Rates == {<<1, 1>>, <<1, 2>>, <<2, 1>>}

\* interval = 1.0 / calls_per_second, in ticks.
Interval(c) == (TicksPerSecond * c[2]) \div c[1]

\* wait_time = interval - (time.time() - last_called[0])
WaitTime(c, t, last) == Interval(c) - (t - last)

\* time.sleep(wait_time) if wait_time > 0: the time at which func is called.
TimeAfterWait(c, t, last) ==
    IF WaitTime(c, t, last) > 0 THEN t + WaitTime(c, t, last) ELSE t

\* The caller does something else for one tick.
CallerIdles ==
    /\ lpc = "idle"
    /\ now < MaxTime
    /\ now' = now + 1
    /\ UNCHANGED <<cps, last_called, lpc, invocations, prevStart, gap, lastAtRaise, rateOutcome>>
    /\ UNCHANGED <<mainVars, retryVars, postVars, idVars, probeVars, srvVars>>

\* wrapper is called: it waits out the rest of the interval and calls func.
RateEnter ==
    /\ lpc = "idle"
    /\ now < MaxTime
    /\ invocations < MaxInvocations
    /\ invocations' = invocations + 1
    /\ now' = TimeAfterWait(cps, now, last_called)
    /\ prevStart' = now'
    /\ gap' = IF prevStart < 0 THEN -1 ELSE now' - prevStart
    /\ lpc' = "func"
    /\ UNCHANGED <<cps, last_called, lastAtRaise, rateOutcome>>
    /\ UNCHANGED <<mainVars, retryVars, postVars, idVars, probeVars, srvVars>>

\* func returned after d ticks: last_called[0] = time.time(); return result.
RateFuncReturns(d) ==
    /\ lpc = "func"
    /\ now' = now + d
    /\ last_called' = now'
    /\ lpc' = "idle"
    /\ rateOutcome' = "returned"
    /\ UNCHANGED <<cps, invocations, prevStart, gap, lastAtRaise>>
    /\ UNCHANGED <<mainVars, retryVars, postVars, idVars, probeVars, srvVars>>

\* func raised after d ticks: the exception leaves wrapper at line 51.
RateFuncRaisesStamped(d) ==
    /\ lpc = "func"
    /\ now' = now + d
    /\ last_called' = now'
    /\ lastAtRaise' = <<last_called, last_called'>>
    /\ lpc' = "idle"
    /\ rateOutcome' = "raised"
    /\ UNCHANGED <<cps, invocations, prevStart, gap>>
    /\ UNCHANGED <<mainVars, retryVars, postVars, idVars, probeVars, srvVars>>
RateFuncRaises(d) ==
    /\ lpc = "func"
    /\ now' = now + d
    /\ last_called' = last_called
    /\ lastAtRaise' = <<last_called, last_called'>>
    /\ lpc' = "idle"
    /\ rateOutcome' = "raised"
    /\ UNCHANGED <<cps, invocations, prevStart, gap>>
    /\ UNCHANGED <<mainVars, retryVars, postVars, idVars, probeVars, srvVars>>

InitRate ==
    /\ cps \in Rates
    /\ now = StartTime
    /\ last_called = 0
    /\ lpc = "idle"
    /\ invocations = 0
    /\ prevStart = -1
    /\ gap = -1
    /\ lastAtRaise = <<>>
    /\ rateOutcome = "none"
    /\ max_retries = 0
    /\ RetryIdle /\ MainIdle /\ PostIdle /\ IdIdle /\ ProbeIdle /\ ServerIdle

NextRate ==
    \/ CallerIdles
    \/ RateEnter
    \/ \E d \in 0..MaxDuration : RateFuncReturns(d)
    \/ \E d \in 0..MaxDuration : RateFuncRaises(d)

SpecRate == InitRate /\ [][NextRate]_vars

\* C7: whatever the outcome of each invocation, the wrapped operation starts
\* at least 1/calls_per_second after its previous start.
C7_MinimumIntervalBetweenStarts ==
    gap >= 0 => gap >= Interval(cps)


(***************************************************************************)
(* SpecId: device identity (metrics.get_simulated_id, get_device_id)       *)
(***************************************************************************)
\* Python values: a str (a sequence of characters), None, or a raised
\* exception on its way to the enclosing log_exceptions wrapper.
Str(v) == [kind |-> "str", val |-> v]
None == [kind |-> "none", val |-> <<>>]
Exc == [kind |-> "exc", val |-> <<>>]

\* A file of the host: absent, present but not readable, or readable text.
Absent == [kind |-> "absent", val |-> <<>>]
Denied == [kind |-> "denied", val |-> <<>>]
File(v) == [kind |-> "file", val |-> v]

Whitespace == {" ", "\n"}

\* str.strip(): drop leading and trailing whitespace.
RECURSIVE LStrip(_)
LStrip(t) ==
    IF t # <<>> /\ Head(t) \in Whitespace THEN LStrip(Tail(t)) ELSE t
RECURSIVE RStrip(_)
RStrip(t) ==
    IF t # <<>> /\ t[Len(t)] \in Whitespace
    THEN RStrip(SubSeq(t, 1, Len(t) - 1)) ELSE t
Strip(t) == RStrip(LStrip(t))

\* Texts the two files may hold when the process starts.
MidTexts == {<<>>, <<"\n">>, <<"m", "\n">>}
SideTexts == {<<>>, <<"\n">>, <<"s">>, <<"s", "\n">>}
\* Values of CONTAINER_ID: unset, empty, set.
EnvValues == {None, Str(<<>>), Str(<<"e">>)}
\* str(uuid.uuid4()).replace("-", ""): identifiers that may be generated.
UUIDs == {<<"u">>, <<"v">>}

MidStates == {Absent, Denied} \cup {File(t) : t \in MidTexts}
SideStates == {Absent, Denied} \cup {File(t) : t \in SideTexts \cup UUIDs}

\* `if env_id:` -- a str is true when it is not empty.
Truthy(v) == v.kind = "str" /\ v.val # <<>>

\* log_exceptions(default)(func): the value of func, or default if it raised.
log_exceptions_reraise(default, r) == r
log_exceptions(default, r) == IF r = Exc THEN default ELSE r

\* The body of get_simulated_id: the value returned (or Exc) and the side
\* file it leaves.  fresh is the uuid that would be generated.
SimulatedIdBodyNotReadBack(env, side, st, fresh) ==
    IF Truthy(env)
    THEN [ret |-> env, side |-> side]
    ELSE IF st = "ok"
    THEN [ret |-> Str(fresh), side |-> File(fresh)]
    ELSE [ret |-> Exc, side |-> side]
SimulatedIdBodyNotPersisted(env, side, st, fresh) ==
    IF Truthy(env)
    THEN [ret |-> env, side |-> side]
    ELSE IF side.kind = "denied"
    THEN [ret |-> Exc, side |-> side]
    ELSE IF side.kind = "file" /\ Strip(side.val) # <<>>
    THEN [ret |-> Str(Strip(side.val)), side |-> side]
    ELSE IF st = "ok"
    THEN [ret |-> Str(fresh), side |-> side]
    ELSE [ret |-> Exc, side |-> side]
SimulatedIdBody(env, side, st, fresh) ==
    IF Truthy(env)
    THEN [ret |-> env, side |-> side]
    ELSE IF side.kind = "denied"
    THEN \* os.path.exists is true, open(..., "r") raises
         [ret |-> Exc, side |-> side]
    ELSE IF side.kind = "file" /\ Strip(side.val) # <<>>
    THEN [ret |-> Str(Strip(side.val)), side |-> side]
    ELSE IF st = "ok"
    THEN [ret |-> Str(fresh), side |-> File(fresh)]
    ELSE \* open(..., "w") raises
         [ret |-> Exc, side |-> side]

\* @log_exceptions(default=None) def get_simulated_id
get_simulated_id(env, side, st, fresh) ==
    LET r == SimulatedIdBody(env, side, st, fresh)
    IN  [ret |-> log_exceptions(None, r.ret), side |-> r.side]

\* The body of get_device_id.
DeviceIdBody(mid, env, side, st, fresh) ==
    IF mid.kind = "denied"
    THEN \* open raises something other than FileNotFoundError
         [ret |-> Exc, side |-> side]
    ELSE IF mid.kind = "file" /\ Strip(mid.val) # <<>>
    THEN [ret |-> Str(Strip(mid.val)), side |-> side]
    ELSE \* FileNotFoundError, or an empty machine-id
         get_simulated_id(env, side, st, fresh)

\* @log_exceptions(default=<value bound at import>) def get_device_id
get_device_id(mid, env, side, st, fresh, default) ==
    LET r == DeviceIdBody(mid, env, side, st, fresh)
    IN  [ret |-> log_exceptions(default, r.ret), side |-> r.side]

\* The process starts and metrics.py is imported: the decorator argument
\* get_simulated_id() of line 47 is evaluated.
ImportMetricsLazy ==
    /\ idpc = "boot"
    /\ dflt' = None
    /\ idpc' = "ready"
    /\ lastAct' = "import"
    /\ UNCHANGED <<envId, midFile, sideFile, storage, device_id>>
    /\ UNCHANGED <<resolutions, firstId, prevId, envFixed>>
    /\ UNCHANGED <<mainVars, retryVars, postVars, rateVars, probeVars, srvVars>>
ImportMetrics ==
    /\ idpc = "boot"
    /\ \E fresh \in UUIDs :
          LET r == get_simulated_id(envId, sideFile, storage, fresh)
          IN  /\ dflt' = r.ret
              /\ sideFile' = r.side
    /\ idpc' = "ready"
    /\ lastAct' = "import"
    /\ UNCHANGED <<envId, midFile, storage, device_id>>
    /\ UNCHANGED <<resolutions, firstId, prevId, envFixed>>
    /\ UNCHANGED <<mainVars, retryVars, postVars, rateVars, probeVars, srvVars>>

\* Collection cycles one process is followed through.
MaxCycles == 3

Unset == [kind |-> "unset", val |-> <<>>]

\* collect_metrics: device_id = get_device_id(), placed in the snapshot.
\* Every cycle makes the call.
CollectDeviceIdCached ==
    /\ idpc = "ready"
    /\ resolutions < MaxCycles
    /\ resolutions' = resolutions + 1
    /\ IF resolutions = 0
       THEN \E fresh \in UUIDs :
              LET r == get_device_id(midFile, envId, sideFile, storage, fresh, dflt)
              IN  /\ device_id' = r.ret
                  /\ sideFile' = r.side
       ELSE UNCHANGED <<device_id, sideFile>>
    /\ firstId' = IF resolutions = 0 THEN device_id' ELSE firstId
    /\ lastAct' = "resolve"
    /\ UNCHANGED <<envId, midFile, storage, dflt, idpc, prevId, envFixed>>
    /\ UNCHANGED <<mainVars, retryVars, postVars, rateVars, probeVars, srvVars>>
CollectDeviceId ==
    /\ idpc = "ready"
    /\ resolutions < MaxCycles
    /\ resolutions' = resolutions + 1
    /\ \E fresh \in UUIDs :
          LET r == get_device_id(midFile, envId, sideFile, storage, fresh, dflt)
          IN  /\ device_id' = r.ret
              /\ sideFile' = r.side
    /\ firstId' = IF resolutions = 0 THEN device_id' ELSE firstId
    /\ lastAct' = "resolve"
    /\ UNCHANGED <<envId, midFile, storage, dflt, idpc, prevId, envFixed>>
    /\ UNCHANGED <<mainVars, retryVars, postVars, rateVars, probeVars, srvVars>>

\* The host changes one of the files under the running process.
HostChanges ==
    /\ idpc = "ready"
    /\ \/ \E f \in MidStates : midFile' = f /\ UNCHANGED <<sideFile, storage>>
       \/ \E f \in SideStates : sideFile' = f /\ UNCHANGED <<midFile, storage>>
       \/ \E st \in {"ok", "fail"} : storage' = st /\ UNCHANGED <<midFile, sideFile>>
    /\ lastAct' = "host"
    /\ envFixed' = FALSE
    /\ prevId' = Unset
    /\ UNCHANGED <<envId, dflt, device_id, idpc, resolutions, firstId>>
    /\ UNCHANGED <<mainVars, retryVars, postVars, rateVars, probeVars, srvVars>>

\* The process ends and is started again on the same host.
ProcessRestarts ==
    /\ idpc = "ready"
    /\ idpc' = "boot"
    /\ dflt' = None
    /\ device_id' = None
    /\ lastAct' = "restart"
    /\ resolutions' = 0
    /\ firstId' = Unset
    /\ prevId' = IF envFixed THEN firstId ELSE Unset
    /\ envFixed' = TRUE
    /\ UNCHANGED <<envId, midFile, sideFile, storage>>
    /\ UNCHANGED <<mainVars, retryVars, postVars, rateVars, probeVars, srvVars>>

InitId ==
    /\ envId \in EnvValues
    /\ midFile \in MidStates
    /\ sideFile \in SideStates
    /\ storage \in {"ok", "fail"}
    /\ dflt = None
    /\ device_id = None
    /\ idpc = "boot"
    /\ lastAct = "none"
    /\ resolutions = 0
    /\ firstId = Unset
    /\ prevId = Unset
    /\ envFixed = TRUE
    /\ max_retries = 0
    /\ RetryIdle /\ MainIdle /\ PostIdle /\ RateIdle /\ ProbeIdle /\ ServerIdle

NextId ==
    \/ ImportMetrics
    \/ CollectDeviceId
    \/ HostChanges
    \/ ProcessRestarts

SpecId == InitId /\ [][NextId]_vars

\* C8: whenever a non-empty CONTAINER_ID is present, get_device_id returns
\* it, whatever the machine-identity file and the side file are.
C8_OverrideWins ==
    (lastAct = "resolve" /\ Truthy(envId)) => device_id = envId

\* C9 as stated: with no override, the result is the trimmed machine-id when
\* that file is present and non-empty; otherwise the contents of the side
\* file when it exists and is non-empty; otherwise a fresh identifier that has
\* been written to the side file.  (Nothing is said of a step whose file
\* cannot be read or written.)
C9_ResolutionOrderAsStated ==
    [][(lastAct' = "resolve" /\ ~Truthy(envId)) =>
        IF midFile.kind = "denied" THEN TRUE
        ELSE IF midFile.kind = "file" /\ midFile.val # <<>>
        THEN device_id' = Str(Strip(midFile.val)) /\ sideFile' = sideFile
        ELSE IF sideFile.kind = "denied" THEN TRUE
        ELSE IF sideFile.kind = "file" /\ sideFile.val # <<>>
        THEN device_id' = Str(sideFile.val) /\ sideFile' = sideFile
        ELSE IF storage # "ok" THEN TRUE
        ELSE /\ device_id'.kind = "str" /\ device_id'.val \in UUIDs
             /\ sideFile' = File(device_id'.val)]_vars

\* C9 (amended): with no override, the result is the trimmed machine-id when
\* that is non-empty; otherwise the trimmed contents of the side file when
\* that is non-empty; otherwise a fresh identifier that has been written to
\* the side file.  (Nothing is said of a step whose file cannot be read or
\* written.)
C9_ResolutionOrder ==
    [][(lastAct' = "resolve" /\ ~Truthy(envId)) =>
        IF midFile.kind = "denied" THEN TRUE
        ELSE IF midFile.kind = "file" /\ Strip(midFile.val) # <<>>
        THEN device_id' = Str(Strip(midFile.val)) /\ sideFile' = sideFile
        ELSE IF sideFile.kind = "denied" THEN TRUE
        ELSE IF sideFile.kind = "file" /\ Strip(sideFile.val) # <<>>
        THEN device_id' = Str(Strip(sideFile.val)) /\ sideFile' = sideFile
        ELSE IF storage # "ok" THEN TRUE
        ELSE /\ device_id'.kind = "str" /\ device_id'.val \in UUIDs
             /\ sideFile' = File(device_id'.val)]_vars

\* A resolution that fell through a blank machine-id to a side file ending
\* in a newline, and returned the side file's text without the newline.
C9_Witness ==
    /\ lastAct = "resolve"
    /\ ~Truthy(envId)
    /\ midFile = File(<<"\n">>)
    /\ sideFile = File(<<"s", "\n">>)
    /\ device_id = Str(<<"s">>)

\* C10: the device_id placed in a snapshot is a non-empty string; resolution
\* yields a non-empty identifier or ends the process with a fatal error.
C10_DeviceIdNeverEmpty ==
    lastAct = "resolve" =>
        \/ idpc = "fatal"
        \/ (device_id.kind = "str" /\ device_id.val # <<>>)


\* C11: with the host files left alone, every call of get_device_id in a
\* process returns what the first call returned, and a call after a restart
\* returns what was returned before the restart.
C11_ResolutionIsIdempotent ==
    lastAct = "resolve" =>
        /\ envFixed => device_id = firstId
        /\ prevId # Unset => device_id = prevId

\* A generated identifier returned before a restart, read back from the side
\* file and returned again by the second call after the restart.
C11_Witness ==
    /\ lastAct = "resolve"
    /\ resolutions >= 2
    /\ envFixed
    /\ prevId.kind = "str" /\ prevId.val \in UUIDs
    /\ sideFile = File(prevId.val)
    /\ device_id = prevId

\* C12 as stated: in one process the identity is resolved (the files read)
\* once, however many collection cycles run.
C12_ResolvedOncePerProcess == resolutions <= 1

\* C12 (amended): every collection cycle resolves the identity again, so the
\* device_id of a cycle is read from the files as they are at that cycle;
\* only the default of the log_exceptions wrapper is computed once, at
\* process start.
C12_ResolvedEveryCycle ==
    [][lastAct' = "resolve" =>
        /\ resolutions' = resolutions + 1
        /\ dflt' = dflt
        /\ (midFile.kind = "file" /\ Strip(midFile.val) # <<>>) =>
              device_id' = Str(Strip(midFile.val))
        /\ (/\ midFile.kind \in {"absent", "file"}
            /\ Strip(midFile.val) = <<>>
            /\ ~Truthy(envId)
            /\ sideFile.kind = "file" /\ Strip(sideFile.val) # <<>>) =>
              device_id' = Str(Strip(sideFile.val))]_vars

\* A later cycle of a process reporting a machine-id that the first cycle
\* did not report.
C12_Witness ==
    /\ lastAct = "resolve"
    /\ resolutions >= 2
    /\ midFile.kind = "file"
    /\ device_id = Str(Strip(midFile.val))
    /\ firstId # device_id

\* C20: when the machine-identity file cannot be read, get_device_id returns
\* what get_simulated_id yields at that moment: the override, else the side
\* file as it is now, else a fresh identifier that it persists.
C20_UnreadableMachineIdFallsThrough ==
    [][(lastAct' = "resolve" /\ midFile.kind = "denied") =>
        \E fresh \in UUIDs :
            LET r == get_simulated_id(envId, sideFile, storage, fresh)
            IN  device_id' = r.ret /\ sideFile' = r.side]_vars


(***************************************************************************)
(* SpecCpu: metrics.get_cpu_usage over two reads of /proc/stat             *)
(***************************************************************************)
\* Largest value of a /proc/stat counter tried.
MaxCounter == 3

\* A read of /proc/stat that raised.
Unreadable == <<-1, -1>>

\* What read_cpu_times may yield: <<idle, total>> with idle part of total.
Samples ==
    {Unreadable} \cup
    {s \in (0..MaxCounter) \X (0..MaxCounter) : s[1] <= s[2]}

\* round(num / den, 0) for den # 0, halves rounded up.
RoundDiv(num, den) ==
    IF den > 0 THEN (2 * num + den) \div (2 * den)
    ELSE (2 * (0 - num) + (0 - den)) \div (2 * (0 - den))

\* The statements of the try block that raise: the two reads.  The division
\* is reached only with total_delta # 0.
CpuRaises(s1, s2) == s1 = Unreadable \/ s2 = Unreadable

\* get_cpu_usage, in hundredths of a percent: round(usage, 2) * 100.
get_cpu_usage_idle_share(s1, s2) ==
    IF CpuRaises(s1, s2)
    THEN 0
    ELSE LET idle_delta == s2[1] - s1[1]
             total_delta == s2[2] - s1[2]
         IN  IF total_delta = 0
             THEN 0
             ELSE RoundDiv(10000 * idle_delta, total_delta)
get_cpu_usage(s1, s2) ==
    IF CpuRaises(s1, s2)
    THEN \* except Exception: return 0.0
         0
    ELSE LET idle_delta == s2[1] - s1[1]
             total_delta == s2[2] - s1[2]
         IN  IF total_delta = 0
             THEN 0
             ELSE \* 100.0 * (1.0 - idle_delta / total_delta)
                  RoundDiv(10000 * (total_delta - idle_delta), total_delta)

\* The probe runs on the two samples the host gives it.
CpuProbe ==
    /\ cpupc = "ready"
    /\ cpu_usage' = get_cpu_usage(sample1, sample2)
    /\ cpupc' = IF CpuRaises(sample1, sample2) THEN "caught" ELSE "done"
    /\ UNCHANGED <<sample1, sample2, cpc, hostFail, unreadable, invoked, probeResult, snapshot>>
    /\ UNCHANGED <<mainVars, retryVars, postVars, rateVars, idVars, srvVars>>

\* The next cycle: the host has new samples for the probe.
CpuNextCycle ==
    /\ cpupc \in {"done", "caught"}
    /\ \E s1 \in Samples, s2 \in Samples : sample1' = s1 /\ sample2' = s2
    /\ cpupc' = "ready"
    /\ UNCHANGED <<cpu_usage, cpc, hostFail, unreadable, invoked, probeResult, snapshot>>
    /\ UNCHANGED <<mainVars, retryVars, postVars, rateVars, idVars, srvVars>>

InitCpu ==
    /\ sample1 \in Samples
    /\ sample2 \in Samples
    /\ cpu_usage = 0
    /\ cpupc = "ready"
    /\ cpc = "off" /\ hostFail = {} /\ unreadable = {} /\ invoked = {}
    /\ probeResult = <<>> /\ snapshot = <<>>
    /\ max_retries = 0
    /\ RetryIdle /\ MainIdle /\ PostIdle /\ RateIdle /\ IdIdle /\ ServerIdle

NextCpu ==
    \/ CpuProbe
    \/ CpuNextCycle

SpecCpu == InitCpu /\ [][NextCpu]_vars

\* C19: when both samples are the same the probe returns 0.0; when the
\* counters advanced with 0 <= delta idle <= delta total and delta total > 0,
\* the result is 100 * (1 - delta idle / delta total) rounded to two decimals,
\* and lies in [0, 100].
C19_CpuUsageInRange ==
    (cpupc \in {"done", "caught"} /\ sample1 # Unreadable /\ sample2 # Unreadable) =>
        LET di == sample2[1] - sample1[1]
            dt == sample2[2] - sample1[2]
        IN  /\ cpupc = "done"
            /\ sample1 = sample2 => cpu_usage = 0
            /\ (0 <= di /\ di <= dt /\ dt > 0) =>
                  /\ 0 <= cpu_usage /\ cpu_usage <= 10000
                  /\ 2 * (cpu_usage * dt - 10000 * (dt - di)) <= dt
                  /\ 2 * (10000 * (dt - di) - cpu_usage * dt) <= dt

\* One third of the interval idle: 66.67 percent.
C19_Witness ==
    /\ cpupc = "done"
    /\ sample1 = <<0, 0>> /\ sample2 = <<1, 3>>
    /\ cpu_usage = 6667


(***************************************************************************)
(* SpecCollect: metrics.collect_metrics and the host probes                *)
(***************************************************************************)
Num(n) == [kind |-> "num", val |-> <<n>>]
Dict(percent, kb, mb, gb) == [kind |-> "dict", val |-> <<percent, kb, mb, gb>>]
List(l) == [kind |-> "list", val |-> l]

\* The probes whose host read may fail in a cycle.
Probes == {"uptime", "cpu", "memory", "disk", "load", "interface", "ip", "mac"}

\* The four counter files, in the order get_network_stats reads them.
Counters == <<"rx_bytes", "tx_bytes", "rx_packets", "tx_packets">>
CounterNames == {Counters[k] : k \in 1..Len(Counters)}

\* What the host holds when its reads succeed.  Percentages, MB and GB are in
\* hundredths.
Host ==
    [uptime |-> 12,
     stat1 |-> <<0, 0>>, stat2 |-> <<1, 3>>,
     MemTotal |-> 8, MemAvailable |-> 3,
     f_blocks |-> 10, f_frsize |-> 1024, f_bavail |-> 4,
     loadavg |-> <<1, 2, 3>>,
     interface |-> <<"eth0">>, ip |-> <<"10.0.0.2">>, mac |-> <<"aa:bb">>,
     rx_bytes |-> 11, tx_bytes |-> 12, rx_packets |-> 13, tx_packets |-> 14]

DeviceIds == {Str(<<"m">>), Str(<<"u">>)}

\* Usage in %, kB, MB and GB of used_kb out of total_kb.
UsageDict(used_percent, used_kb) ==
    Dict(used_percent, used_kb, RoundDiv(100 * used_kb, 1024),
         RoundDiv(100 * used_kb, 1024 * 1024))

get_uptime(F) ==
    log_exceptions(Num(-1), IF "uptime" \in F THEN Exc ELSE Num(Host.uptime))

CpuProbeResult(F) ==
    Num(get_cpu_usage(IF "cpu" \in F THEN Unreadable ELSE Host.stat1,
                      IF "cpu" \in F THEN Unreadable ELSE Host.stat2))

get_memory_usage(F) ==
    log_exceptions(Dict(0, 0, 0, 0),
        IF "memory" \in F
        THEN Exc
        ELSE LET used_kb == Host.MemTotal - Host.MemAvailable
             IN  UsageDict(RoundDiv(10000 * used_kb, Host.MemTotal), used_kb))

get_disk_usage(F) ==
    log_exceptions(Dict(0, 0, 0, 0),
        IF "disk" \in F
        THEN Exc
        ELSE LET total == Host.f_blocks * Host.f_frsize
                 free == Host.f_bavail * Host.f_frsize
                 used == total - free
             IN  UsageDict(RoundDiv(10000 * used, total), used \div 1024))

get_load_average(F) ==
    log_exceptions(List(<<-1, -1, -1>>),
        IF "load" \in F THEN Exc ELSE List(Host.loadavg))

get_default_interface(F) ==
    log_exceptions(None, IF "interface" \in F THEN Exc ELSE Str(Host.interface))

get_ip_address(F) ==
    log_exceptions(None, IF "ip" \in F THEN Exc ELSE Str(Host.ip))

get_mac_address(F) ==
    log_exceptions(None, IF "mac" \in F THEN Exc ELSE Str(Host.mac))

\* Index of the first counter file whose read raises, or Len(Counters) + 1.
FirstUnreadable(U) ==
    IF \E k \in 1..Len(Counters) : Counters[k] \in U
    THEN CHOOSE k \in 1..Len(Counters) :
            /\ Counters[k] \in U
            /\ \A j \in 1..(k - 1) : Counters[j] \notin U
    ELSE Len(Counters) + 1

\* get_network_stats: the four reads share one try block, so the first read
\* that raises ends the block and the later counters keep their initial 0.
get_network_stats(U) ==
    [c \in CounterNames |->
        LET k == CHOOSE j \in 1..Len(Counters) : Counters[j] = c
        IN  IF k < FirstUnreadable(U) THEN Num(Host[c]) ELSE Num(0)]

\* The probes collect_metrics calls, given what get_default_interface gave.
InvokedAlways(interface) ==
    {"uptime", "cpu", "memory", "disk", "load", "interface", "ip", "mac", "stats"}
Invoked(interface) ==
    {"uptime", "cpu", "memory", "disk", "load", "interface"}
        \cup (IF Truthy(interface) THEN {"ip", "mac", "stats"} ELSE {})

\* What each called probe returned.
ProbeResults(F) ==
    LET interface == get_default_interface(F)
    IN  [p \in Invoked(interface) \ {"stats"} |->
            CASE p = "uptime" -> get_uptime(F)
              [] p = "cpu" -> CpuProbeResult(F)
              [] p = "memory" -> get_memory_usage(F)
              [] p = "disk" -> get_disk_usage(F)
              [] p = "load" -> get_load_average(F)
              [] p = "interface" -> interface
              [] p = "ip" -> get_ip_address(F)
              [] p = "mac" -> get_mac_address(F)]

\* update() of the three identity fields with the four counters.
NetworkMetrics(res, U) ==
    LET identity == [interface |-> res["interface"],
                     ip_address |-> IF Truthy(res["interface"]) THEN res["ip"] ELSE None,
                     mac_address |-> IF Truthy(res["interface"]) THEN res["mac"] ELSE None]
    IN  IF Truthy(res["interface"])
        THEN identity @@ get_network_stats(U)
        ELSE identity

\* The dictionary collect_metrics returns.
Metrics(d, res, U) ==
    [device_id |-> d,
     system_metrics |->
        [uptime |-> res["uptime"],
         cpu_usage |-> res["cpu"],
         memory_percent |-> Num(res["memory"].val[1]),
         memory_kb |-> Num(res["memory"].val[2]),
         disk_percent |-> Num(res["disk"].val[1]),
         disk_kb |-> Num(res["disk"].val[2]),
         load_1 |-> Num(res["load"].val[1]),
         load_5 |-> Num(res["load"].val[2]),
         load_15 |-> Num(res["load"].val[3])],
     network_metrics |-> NetworkMetrics(res, U)]

\* One call of collect_metrics on a host where the reads of the probes in
\* hostFail and of the counter files in unreadable fail.  An exception out of
\* a probe ends the call without a snapshot.
CollectMetrics ==
    /\ cpc \in {"ready", "done", "raised"}
    /\ \E d \in DeviceIds :
          LET res == ProbeResults(hostFail)
          IN  /\ invoked' = Invoked(get_default_interface(hostFail))
              /\ probeResult' = res
              /\ IF \E p \in DOMAIN res : res[p] = Exc
                 THEN cpc' = "raised" /\ snapshot' = <<>>
                 ELSE cpc' = "done" /\ snapshot' = Metrics(d, res, unreadable)
    /\ UNCHANGED <<hostFail, unreadable, sample1, sample2, cpu_usage, cpupc>>
    /\ UNCHANGED <<mainVars, retryVars, postVars, rateVars, idVars, srvVars>>

\* Between two cycles one host read starts or stops failing.
Toggle(S, x) == IF x \in S THEN S \ {x} ELSE S \cup {x}
ProbeHostChanges ==
    /\ cpc \in {"done", "raised"}
    /\ \/ \E p \in Probes :
            hostFail' = Toggle(hostFail, p) /\ unreadable' = unreadable
       \/ \E c \in CounterNames :
            unreadable' = Toggle(unreadable, c) /\ hostFail' = hostFail
    /\ cpc' = "ready"
    /\ invoked' = {} /\ probeResult' = <<>> /\ snapshot' = <<>>
    /\ UNCHANGED <<sample1, sample2, cpu_usage, cpupc>>
    /\ UNCHANGED <<mainVars, retryVars, postVars, rateVars, idVars, srvVars>>

InitCollect ==
    /\ cpc = "ready"
    /\ hostFail \in SUBSET Probes
    /\ unreadable \in SUBSET CounterNames
    /\ invoked = {}
    /\ probeResult = <<>> /\ snapshot = <<>>
    /\ sample1 = <<0, 0>> /\ sample2 = <<0, 0>> /\ cpu_usage = 0 /\ cpupc = "off"
    /\ max_retries = 0
    /\ RetryIdle /\ MainIdle /\ PostIdle /\ RateIdle /\ IdIdle /\ ServerIdle

NextCollect ==
    \/ CollectMetrics
    \/ ProbeHostChanges

SpecCollect == InitCollect /\ [][NextCollect]_vars

SystemFields ==
    {"uptime", "cpu_usage", "memory_percent", "memory_kb", "disk_percent",
     "disk_kb", "load_1", "load_5", "load_15"}
NetworkFields ==
    {"interface", "ip_address", "mac_address"} \cup CounterNames

\* C13: every snapshot collect() returns has device_id, the nine
\* system_metrics fields and the seven network_metrics fields; with no default
\* interface the three identity fields are None and the four counters are 0.
C13_SnapshotSchemaStable ==
    cpc = "done" =>
        /\ DOMAIN snapshot = {"device_id", "system_metrics", "network_metrics"}
        /\ DOMAIN snapshot.system_metrics = SystemFields
        /\ DOMAIN snapshot.network_metrics = NetworkFields
        /\ snapshot.network_metrics.interface = None =>
              /\ snapshot.network_metrics.ip_address = None
              /\ snapshot.network_metrics.mac_address = None
              /\ \A c \in CounterNames : snapshot.network_metrics[c] = Num(0)

\* The documented sentinel of each probe.
Sentinel(p) ==
    CASE p = "uptime" -> Num(-1)
      [] p = "cpu" -> Num(0)
      [] p \in {"memory", "disk"} -> Dict(0, 0, 0, 0)
      [] p = "load" -> List(<<-1, -1, -1>>)
      [] p \in {"interface", "ip", "mac"} -> None

C15_CountersIndependent ==
    (cpc = "done" /\ "stats" \in invoked) =>
        \A c \in CounterNames :
            snapshot.network_metrics[c] =
                IF c \in unreadable THEN Num(0) ELSE Num(Host[c])


(***************************************************************************)
(* Run loop: properties of SpecLive                                        *)
(***************************************************************************)
\* The steps of main.py: what may follow what.
RunLoopStep ==
    /\ pc' # pc =>
          \/ pc = "collect" /\ pc' = "deliver"
          \/ pc = "deliver" /\ pc' = "delivering"
          \/ pc = "delivering" /\ pc' = "collect" /\ containerized /\ rpc = "returned"
          \/ pc = "delivering" /\ pc' = "exit" /\ ~containerized /\ rpc = "returned"
          \/ pc = "delivering" /\ pc' = "crashed" /\ rpc = "raised"
    /\ metrics' # metrics => pc = "collect" /\ pc' = "deliver"
    /\ containerized' = containerized

\* C16: the run starts with a collect; a deliver follows each collect and
\* sends the snapshot of that collect; in continuous mode a collect follows
\* each deliver that returns and the loop has no exit of its own; in one-shot
\* mode the process exits after the one deliver.  (A deliver that raises ends
\* the process in either mode: C5.)
C16_RunLoopOrder ==
    /\ pc = "collect"
    /\ [][RunLoopStep]_vars
    /\ [](pc = "delivering" => \A k \in 1..Len(log) : log[k].body = metrics)
    /\ [](containerized => pc # "exit")
    /\ (pc = "collect") ~> (pc = "deliver")
    /\ (pc = "deliver") ~> (pc = "delivering")
    /\ (containerized /\ pc = "delivering" /\ rpc = "returned") ~> (pc = "collect")
    /\ (~containerized /\ pc = "delivering" /\ rpc = "returned") ~> (pc = "exit")

\* Continuous mode, second cycle: a deliver has returned, the next collect
\* has run and its snapshot is being delivered.
C16_Witness ==
    /\ containerized
    /\ pc = "delivering"
    /\ response # NoResponse
    /\ log # <<>> /\ log[1].body = metrics

\* Number of requests of the delivery made with the method.
Requests(method) == Cardinality({k \in 1..Len(log) : log[k].method = method})

\* C18: in one-shot mode the process terminates whatever the collector
\* answers, after at most 5 attempts: at most 5 PATCH and 5 POST requests.
C18_OneShotTerminates ==
    /\ ~containerized => <>(pc \in {"exit", "crashed"})
    /\ [](~containerized =>
            /\ calls <= 5
            /\ Requests("PATCH") <= 5
            /\ Requests("POST") <= 5)

\* The longest one-shot run: five attempts, each a PATCH answered 404 and a
\* POST that failed.
C18_Witness ==
    /\ ~containerized
    /\ pc = "crashed"
    /\ calls = 5
    /\ Requests("PATCH") = 5 /\ Requests("POST") = 5


(***************************************************************************)
(* SpecServer: post_metrics against Server/Metrics DeviceListCreateView    *)
(***************************************************************************)
\* Request bodies: a device_id, system_metrics and network_metrics.  "bad" is
\* a network_metrics object the serializer rejects (a null interface).
SrvDeviceIds == {"d1", "d2"}
\* The device_id of a snapshot whose identity resolution gave None.
NullId == "null"
SystemData == {"s1", "s2"}
NetworkData == {"n1", "bad"}
SrvSnapshots ==
    [device_id : SrvDeviceIds \cup {NullId}, system_metrics : SystemData,
     network_metrics : NetworkData]
NoMetrics == [device_id |-> "none", system_metrics |-> "none", network_metrics |-> "none"]

\* serializer.is_valid() of the two metrics serializers.
MetricsValid(data) == data # "bad"

\* The tables of the collector.
DB == [devices |-> devices, sysRows |-> sysRows, netRows |-> netRows]

\* Primary keys of the Device rows with the device_id.
DeviceRows(ds, id) == {k \in 1..Len(ds) : ds[k] = id}

\* Indexes of the metrics rows whose device is dev.
RowsOf(rows, dev) == {k \in 1..Len(rows) : rows[k].device = dev}

\* DeviceSerializer(data=...).is_valid(): the UniqueValidator of device_id.
\* A null device_id is rejected as well.
DeviceValid(ds, id) == id # NullId /\ DeviceRows(ds, id) = {}

\* objects.get(device=device), then save of the serializer on that row; or,
\* on DoesNotExist, save of a new row.
UpsertRowAlwaysCreates(rows, dev, data) ==
    Append(rows, [device |-> dev, data |-> data])
UpsertRow(rows, dev, data) ==
    IF RowsOf(rows, dev) = {}
    THEN Append(rows, [device |-> dev, data |-> data])
    ELSE [k \in 1..Len(rows) |->
            IF rows[k].device = dev THEN [device |-> dev, data |-> data] ELSE rows[k]]

\* DeviceListCreateView.post: the tables it leaves and the status it answers.
ViewPost(db, body) ==
    IF ~DeviceValid(db.devices, body.device_id)
    THEN [db |-> db, status |-> 400]
    ELSE LET ds == Append(db.devices, body.device_id)
             dev == Len(ds)
             sys == Append(db.sysRows, [device |-> dev, data |-> body.system_metrics])
             net == Append(db.netRows, [device |-> dev, data |-> body.network_metrics])
         IN  IF ~MetricsValid(body.system_metrics)
             THEN [db |-> [db EXCEPT !.devices = ds], status |-> 400]
             ELSE IF ~MetricsValid(body.network_metrics)
             THEN [db |-> [db EXCEPT !.devices = ds, !.sysRows = sys], status |-> 400]
             ELSE [db |-> [devices |-> ds, sysRows |-> sys, netRows |-> net],
                   status |-> 201]

\* DeviceListCreateView.patch.  objects.get raises MultipleObjectsReturned
\* when more than one row matches: the view does not catch it (500).
ViewPatchCreatesMissing(db, body) ==
    IF body.device_id = NullId
    THEN [db |-> db, status |-> 400]
    ELSE IF DeviceRows(db.devices, body.device_id) = {}
    THEN [db |-> ViewPost(db, body).db, status |-> 200]
    ELSE IF Cardinality(DeviceRows(db.devices, body.device_id)) > 1
    THEN [db |-> db, status |-> 500]
    ELSE LET dev == CHOOSE k \in DeviceRows(db.devices, body.device_id) : TRUE
             sys == UpsertRow(db.sysRows, dev, body.system_metrics)
             net == UpsertRow(db.netRows, dev, body.network_metrics)
         IN  IF Cardinality(RowsOf(db.sysRows, dev)) > 1
             THEN [db |-> db, status |-> 500]
             ELSE IF ~MetricsValid(body.system_metrics)
             THEN [db |-> db, status |-> 400]
             ELSE IF Cardinality(RowsOf(db.netRows, dev)) > 1
             THEN [db |-> [db EXCEPT !.sysRows = sys], status |-> 500]
             ELSE IF ~MetricsValid(body.network_metrics)
             THEN [db |-> [db EXCEPT !.sysRows = sys], status |-> 400]
             ELSE [db |-> [db EXCEPT !.sysRows = sys, !.netRows = net],
                   status |-> 200]
ViewPatch(db, body) ==
    IF body.device_id = NullId
    THEN \* `if not device_id`
         [db |-> db, status |-> 400]
    ELSE IF DeviceRows(db.devices, body.device_id) = {}
    THEN [db |-> db, status |-> 404]
    ELSE IF Cardinality(DeviceRows(db.devices, body.device_id)) > 1
    THEN [db |-> db, status |-> 500]
    ELSE LET dev == CHOOSE k \in DeviceRows(db.devices, body.device_id) : TRUE
             sys == UpsertRow(db.sysRows, dev, body.system_metrics)
             net == UpsertRow(db.netRows, dev, body.network_metrics)
         IN  IF Cardinality(RowsOf(db.sysRows, dev)) > 1
             THEN [db |-> db, status |-> 500]
             ELSE IF ~MetricsValid(body.system_metrics)
             THEN [db |-> db, status |-> 400]
             ELSE IF Cardinality(RowsOf(db.netRows, dev)) > 1
             THEN [db |-> [db EXCEPT !.sysRows = sys], status |-> 500]
             ELSE IF ~MetricsValid(body.network_metrics)
             THEN [db |-> [db EXCEPT !.sysRows = sys], status |-> 400]
             ELSE [db |-> [db EXCEPT !.sysRows = sys, !.netRows = net],
                   status |-> 200]

\* The tables become db.
Store(db) ==
    /\ devices' = db.devices
    /\ sysRows' = db.sysRows
    /\ netRows' = db.netRows

\* The request the agent is waiting on.
InFlight == log[Len(log)]

\* metrics = collect_metrics(), for a device of the fleet.
SrvCollect ==
    /\ pc = "collect"
    /\ \E s \in SrvSnapshots : metrics' = s
    /\ pc' = "deliver"
    /\ UNCHANGED <<containerized, response, retryVars, postVars, rateVars, idVars, probeVars, srvVars>>

\* The collector handles the PATCH and its answer reaches the agent.
SrvPatchResponse ==
    /\ rpc = "call" /\ ppc = "patch"
    /\ LET r == ViewPatch(DB, InFlight.body)
       IN  PatchAnswered(r.status) /\ Store(r.db)

\* requests.patch raised: the request never arrived, or the collector
\* handled it and the answer was lost.
SrvPatchError ==
    /\ rpc = "call" /\ ppc = "patch"
    /\ \E arrived \in BOOLEAN :
          Store(IF arrived THEN ViewPatch(DB, InFlight.body).db ELSE DB)
    /\ PatchFailed

\* The collector handles the POST and its answer reaches the agent.
SrvPostResponse ==
    /\ rpc = "call" /\ ppc = "post"
    /\ LET r == ViewPost(DB, InFlight.body)
       IN  PostAnswered(r.status) /\ Store(r.db)

\* requests.post raised.
SrvPostError ==
    /\ rpc = "call" /\ ppc = "post"
    /\ \E arrived \in BOOLEAN :
          Store(IF arrived THEN ViewPost(DB, InFlight.body).db ELSE DB)
    /\ PostFailed

InitServer ==
    /\ containerized = TRUE
    /\ pc = "collect"
    /\ metrics = NoMetrics
    /\ response = NoResponse
    /\ max_retries = PostMetricsMaxRetries
    /\ RetryIdle /\ PostIdle /\ RateIdle /\ IdIdle /\ ProbeIdle /\ ServerIdle

NextServer ==
    \/ SrvCollect
    \/ MainDeliver
    \/ DeliverIterate
    \/ PostMetricsPatch
    \/ SrvPatchResponse
    \/ SrvPatchError
    \/ SrvPostResponse
    \/ SrvPostError
    \/ DeliverSleep
    \/ MainDeliverReturned
    \/ MainDeliverRaised

SpecServer == InitServer /\ [][NextServer]_vars

\* C17: the collector never holds two Device records with one device_id, and
\* when a deliver returns 200 or 201 it holds exactly one Device record for
\* the snapshot's device_id, whose stored system metrics are the snapshot's.
C17_UpsertKeepsOneDevice ==
    /\ \A id \in SrvDeviceIds : Cardinality(DeviceRows(devices, id)) <= 1
    /\ (pc = "delivering" /\ rpc = "returned" /\ result.status \in {200, 201}) =>
          /\ Cardinality(DeviceRows(devices, metrics.device_id)) = 1
          /\ \A dev \in DeviceRows(devices, metrics.device_id) :
                /\ RowsOf(sysRows, dev) # {}
                /\ \A k \in RowsOf(sysRows, dev) :
                      sysRows[k].data = metrics.system_metrics

\* A device registered by an earlier deliver is updated by one answered 200.
C17_Witness ==
    /\ pc = "delivering" /\ rpc = "returned"
    /\ result = Response("PATCH", 200)
    /\ response = Response("POST", 201)
    /\ devices = <<"d1">>
    /\ metrics.device_id = "d1" /\ metrics.system_metrics = "s2"
    /\ sysRows = <<[device |-> 1, data |-> "s2"]>>


\* C21: each process start runs get_simulated_id once, before any collection
\* cycle, whatever /etc/machine-id holds: with no override, no (or an empty)
\* side file and writable storage, the start writes a generated identifier to
\* the side file.
C21_FallbackRunsAtProcessStart ==
    [][/\ idpc = "boot" => (idpc' = "ready" /\ lastAct' = "import")
       /\ lastAct' = "resolve" => idpc = "ready"
       /\ (idpc = "ready" /\ idpc' = "ready") => dflt' = dflt
       /\ (/\ idpc = "boot"
           /\ ~Truthy(envId)
           /\ sideFile.kind \in {"absent", "file"} /\ Strip(sideFile.val) = <<>>
           /\ storage = "ok") =>
              /\ sideFile'.kind = "file" /\ sideFile'.val \in UUIDs
              /\ dflt' = Str(sideFile'.val)]_vars

\* The machine-id is readable and is the identity reported, and the side
\* file holds the identifier generated at process start.
C21_Witness ==
    /\ lastAct = "resolve" /\ resolutions = 1 /\ envFixed
    /\ midFile.kind = "file" /\ device_id = Str(Strip(midFile.val))
    /\ sideFile.kind = "file" /\ sideFile.val \in UUIDs
    /\ dflt = Str(sideFile.val)


\* C22: in a cycle the IP-address, MAC-address and counter probes are called
\* only if the default-interface probe of the cycle returned a name; when it
\* returned None none of the three is called.
C22_NetworkProbesOnlyWithInterface ==
    cpc = "done" =>
        /\ "interface" \in invoked
        /\ invoked \cap {"ip", "mac", "stats"} # {} =>
              /\ probeResult["interface"].kind = "str"
              /\ probeResult["interface"].val # <<>>
        /\ probeResult["interface"] = None =>
              invoked \cap {"ip", "mac", "stats"} = {}

\* A cycle on a host without a default route, whose address files would read
\* fine: the three probes were not called.
C22_Witness ==
    /\ cpc = "done"
    /\ hostFail = {"interface"}
    /\ probeResult["interface"] = None
    /\ invoked = {"uptime", "cpu", "memory", "disk", "load", "interface"}


\* C23: when the wrapped operation raises, the exception reaches the caller
\* and last_called[0] keeps its value; it is set only when the operation
\* returns, to the time of the return.  The next call is therefore paced
\* against the last call that returned.
C23_LastCalledOnlyOnReturn ==
    [][/\ (lpc = "func" /\ lpc' = "idle") =>
             /\ rateOutcome' \in {"returned", "raised"}
             /\ rateOutcome' = "raised" => last_called' = last_called
             /\ rateOutcome' = "returned" => last_called' = now'
       /\ last_called' # last_called =>
             (lpc = "func" /\ lpc' = "idle" /\ rateOutcome' = "returned")
       /\ (lpc = "idle" /\ lpc' = "func") =>
             now' = IF now - last_called < Interval(cps)
                    THEN last_called + Interval(cps)
                    ELSE now]_vars

\* The call after a failed one starts exactly one interval after the last
\* return: the failed call left no trace in last_called[0].
C23_Witness ==
    /\ lpc = "func"
    /\ rateOutcome = "raised"
    /\ lastAtRaise # <<>> /\ last_called = lastAtRaise[1]
    /\ last_called > StartTime
    /\ now = last_called + Interval(cps)
    /\ prevStart = now


\* Number of invocations of the wrapped operation that raised.
Failures(os) == Cardinality({k \in 1..Len(os) : os[k] = Raised})

\* C24: the wrapper sleeps once after every failed invocation, the last one
\* included: when it raises the terminal failure it has slept max_retries
\* times, and it never sleeps after an invocation that returned.
C24_SleepAfterEveryFailure ==
    /\ rpc \in {"loop", "call", "returned", "raised"} => sleeps = Failures(outcomes)
    /\ rpc = "except" => sleeps = Failures(outcomes) - 1
    /\ rpc = "returned" => sleeps = calls - 1
    /\ rpc = "raised" => (sleeps = max_retries /\ Failures(outcomes) = max_retries)

\* Three invocations failed and three sleeps were made before the raise.
C24_Witness ==
    /\ max_retries = 3
    /\ rpc = "raised"
    /\ calls = 3
    /\ sleeps = 3

\* C27: with max_retries = 0 the wrapped operation is never invoked, nothing
\* is slept, and the call of the wrapper raises at once.
C27_ZeroRetriesRaisesAtOnce ==
    /\ [](max_retries = 0 =>
            /\ calls = 0 /\ sleeps = 0 /\ outcomes = <<>>
            /\ rpc \in {"idle", "loop", "raised"})
    /\ [][(max_retries = 0 /\ rpc = "loop") => rpc' = "raised"]_vars

C27_Witness ==
    /\ max_retries = 0
    /\ rpc = "raised"
    /\ calls = 0 /\ sleeps = 0


\* The step on which the agent receives the answer to its POST, and the one
\* on which it receives the answer to its PATCH.
PostAnswerArrives == ppc = "post" /\ ppc' = "none" /\ rpc' = "returned"
PatchAnswerArrives ==
    /\ ppc = "patch" /\ ppc' # "patch"
    /\ log'[Len(log)].state = "response"

\* C25: a POST the collector answers with 400 leaves no new Device,
\* SystemMetrics or NetworkMetrics record behind.
C25_RejectedCreateLeavesNothing ==
    [][(PostAnswerArrives /\ result'.status = 400) =>
          /\ devices' = devices
          /\ sysRows' = sysRows
          /\ netRows' = netRows]_vars

\* C26: a PATCH for a device_id the collector does not know is answered 404
\* and changes no record; no other PATCH is answered 404.
C26_UnknownDeviceIs404 ==
    [][PatchAnswerArrives =>
          LET id == InFlight.body.device_id
              status == log'[Len(log)].status
          IN  /\ (id # NullId /\ DeviceRows(devices, id) = {}) => status = 404
              /\ status = 404 =>
                    /\ id # NullId /\ DeviceRows(devices, id) = {}
                    /\ devices' = devices
                    /\ sysRows' = sysRows
                    /\ netRows' = netRows]_vars

\* A PATCH for an unknown device was answered 404 while another device is
\* registered: the tables still hold that device only.
C26_Witness ==
    /\ ppc = "post"
    /\ Len(log) >= 2
    /\ log[Len(log) - 1].method = "PATCH" /\ log[Len(log) - 1].status = 404
    /\ metrics.device_id = "d2"
    /\ devices = <<"d1">>
    /\ Len(sysRows) = 1


====
